---- MODULE Spec2Model ----
(***************************************************************************)
(* Model of src/output/yandex_stt.py: YandexSTTClient.transcribe and the   *)
(* request generator YandexSTTClient._audio_generator.                     *)
(*                                                                         *)
(* Two threads act in one call of transcribe: the caller's thread, which   *)
(* opens the channel, starts the RPC and iterates the response stream, and *)
(* the request-consumer thread of the RPC, which pulls one request at a    *)
(* time out of _audio_generator and hands it to the transport.  The server *)
(* and the network are the environment.                                    *)
(*                                                                         *)
(* Texts are sequences of one-character strings; audio data are sequences  *)
(* of byte values.                                                         *)
(***************************************************************************)
EXTENDS Integers, Sequences, FiniteSets, TLC

\* ---------------------------------------------------------------- bounds
MaxSrcLen == 5
MaxChunk == 2
MaxEvents == 2

\* ---------------------------------------------------------------- values
\* An optional value is a sequence of at most one element.
None == <<>>
Some(x) == <<x>>

Min(a, b) == IF a < b THEN a ELSE b

\* The audio file of length n: byte i holds i, so any dropped, duplicated or
\* reordered byte shows.
AudioOf(n) == [i \in 1..n |-> i % 256]

Sources == {AudioOf(n) : n \in 0..MaxSrcLen}

\* Values of settings.SAMPLE_RATE and settings.AUDIO_CHANNELS, valid and not.
SampleRates == {-1, 0, 16000}
ChannelCounts == {0, 1}

ta == <<"a">>
tb == <<"b", " ", "c">>
hel == <<"h", "e", "l">>
hello == <<"h", "e", "l", "l", "o">>
wor == <<"w", "o", "r">>
world == <<"w", "o", "r", "l", "d">>

\* A response of the server: the populated member of the oneof Event and the
\* ranked alternatives it carries (for final_refinement: those of
\* normalized_text).
Response(e, alts) == [event |-> e, alternatives |-> alts]

Responses ==
    {Response("partial", <<>>), Response("partial", <<ta>>),
     Response("final", <<>>), Response("final", <<ta>>), Response("final", <<tb, ta>>),
     Response("final_refinement", <<>>), Response("final_refinement", <<ta>>),
     Response("eou_update", <<>>)}

Scenario ==
    <<Response("partial", <<hel>>), Response("partial", <<hello>>),
      Response("final", <<hello>>), Response("partial", <<wor>>),
      Response("final", <<world>>)>>

\* Status of a call the transport gave up on.
TransportErrors ==
    {[code |-> "UNAVAILABLE", details |-> "connection reset"]}

\* Status the request consumer sets when the request iterator raises.
IteratorError == [code |-> "UNKNOWN", details |-> "Exception iterating requests!"]

\* ----------------------------------------------------------------- state
VARIABLES
    audio,              \* bytes of the file at audio_file_path
    chunk_size,         \* settings.CHUNK_SIZE
    save_intermediate,  \* argument of transcribe
    sample_rate,        \* settings.SAMPLE_RATE
    channel_count,      \* settings.AUDIO_CHANNELS
    pc,                 \* position of transcribe
    channel,            \* the grpc channel: "none", "open", "closed"
    call,               \* the RPC: "none", "active", "ok", "failed"
    status,             \* Some(error status) of a failed call
    stream,             \* the server's side of the response stream: None when it
                        \* may deliver any response or end at any time, Some(rest)
                        \* when it delivers the responses of rest and then ends
    inbound,            \* responses transcribe has consumed, in receipt order
    segments,
    intermediate_texts,
    returned,           \* Some(<<full_text, segments>>) once transcribe returned
    raised,             \* Some(error) once transcribe raised
    gen,                \* position of _audio_generator
    f_pos,              \* offset of the open file f
    consumer,           \* the request-consumer thread
    request,            \* Some(request) yielded by the generator, not yet sent
    sent,               \* requests the transport has observed, in order
    drain_from          \* Some(number of responses consumed when the generator
                        \* was exhausted)

vars == <<audio, chunk_size, save_intermediate, sample_rate, channel_count, pc, channel, call, status, stream,
          inbound, segments, intermediate_texts, returned, raised,
          gen, f_pos, consumer, request, sent, drain_from>>

inputVars == <<audio, chunk_size, save_intermediate, sample_rate, channel_count>>
mainVars == <<pc, channel, inbound, segments, intermediate_texts, returned, raised>>
genVars == <<gen, f_pos, consumer, request, sent, drain_from>>

\* ------------------------------------------------------ _audio_generator
\* _create_streaming_options: the settings go into the message as they are.
SessionOptions ==
    [kind |-> "session_options", data |-> <<>>,
     sample_rate_hertz |-> sample_rate, audio_channel_count |-> channel_count]
AudioChunk(data) == [kind |-> "chunk", data |-> data]

\* Mutant of Read: a read that reaches the end of the file gives nothing, so
\* the short last chunk is lost.
Read_DropShort(src, pos, n) ==
    IF pos + n > Len(src) THEN <<>> ELSE SubSeq(src, pos + 1, pos + n)

\* Mutant of Read: the bound of the read is off by one, n + 1 bytes are read.
Read_OneMore(src, pos, n) == SubSeq(src, pos + 1, Min(pos + n + 1, Len(src)))

\* f.read(n) at offset pos: up to n bytes, fewer only at the end of the file.
Read(src, pos, n) == SubSeq(src, pos + 1, Min(pos + n, Len(src)))

\* Mutant of NextOptions: the generator goes on to the file without yielding
\* the session options.
NextOptions_NoYield ==
    /\ consumer = "running" /\ request = None /\ gen = "created"
    /\ gen' = "yield_options"
    /\ UNCHANGED <<f_pos, consumer, request, sent, drain_from>>
    /\ UNCHANGED <<inputVars, mainVars, call, status, stream>>

\* First next(): the generator yields the session options.
NextOptions ==
    /\ consumer = "running" /\ request = None /\ gen = "created"
    /\ request' = Some(SessionOptions)
    /\ gen' = "yield_options"
    /\ UNCHANGED <<f_pos, consumer, sent, drain_from>>
    /\ UNCHANGED <<inputVars, mainVars, call, status, stream>>

\* Mutant of NextChunk: the file is read from its start at every next()
\* (the offset is not kept), until as many chunks were yielded as the file holds.
NextChunk_Rewind ==
    /\ consumer = "running" /\ request = None
    /\ gen \in {"yield_options", "yield_chunk"}
    /\ LET data == Read(audio, 0, chunk_size)
       IN IF data = <<>> \/ f_pos >= Len(audio)
          THEN /\ gen' = "done"
               /\ consumer' = "finished"
               /\ drain_from' = Some(Len(inbound))
               /\ UNCHANGED <<request, f_pos>>
          ELSE /\ gen' = "yield_chunk"
               /\ request' = Some(AudioChunk(data))
               /\ f_pos' = Min(f_pos + chunk_size, Len(audio))
               /\ UNCHANGED <<consumer, drain_from>>
    /\ UNCHANGED sent
    /\ UNCHANGED <<inputVars, mainVars, call, status, stream>>

\* Mutant of NextChunk: an empty read does not end the loop, the generator
\* reads again and again at the end of the file.
NextChunk_NoBreak ==
    /\ consumer = "running" /\ request = None
    /\ gen \in {"yield_options", "yield_chunk"}
    /\ LET data == Read(audio, f_pos, chunk_size)
       IN IF data = <<>>
          THEN /\ gen' = "yield_chunk"
               /\ UNCHANGED <<request, f_pos, consumer, drain_from>>
          ELSE /\ gen' = "yield_chunk"
               /\ request' = Some(AudioChunk(data))
               /\ f_pos' = f_pos + Len(data)
               /\ UNCHANGED <<consumer, drain_from>>
    /\ UNCHANGED sent
    /\ UNCHANGED <<inputVars, mainVars, call, status, stream>>

\* Mutant of NextChunk: the chunk is yielded before the read is tested, so
\* the empty read at the end of the file goes out as a chunk too.
NextChunk_YieldEmpty ==
    /\ consumer = "running" /\ request = None
    /\ gen \in {"yield_options", "yield_chunk", "yield_empty"}
    /\ LET data == Read(audio, f_pos, chunk_size)
       IN IF gen = "yield_empty"
          THEN /\ gen' = "done"
               /\ consumer' = "finished"
               /\ drain_from' = Some(Len(inbound))
               /\ UNCHANGED <<request, f_pos>>
          ELSE /\ gen' = IF data = <<>> THEN "yield_empty" ELSE "yield_chunk"
               /\ request' = Some(AudioChunk(data))
               /\ f_pos' = f_pos + Len(data)
               /\ UNCHANGED <<consumer, drain_from>>
    /\ UNCHANGED sent
    /\ UNCHANGED <<inputVars, mainVars, call, status, stream>>

\* A later next(): (open the file and) read one chunk; an empty read ends the
\* generator, and the consumer then half-closes the call.
NextChunk ==
    /\ consumer = "running" /\ request = None
    /\ gen \in {"yield_options", "yield_chunk"}
    /\ LET data == Read(audio, f_pos, chunk_size)
       IN IF data = <<>>
          THEN /\ gen' = "done"
               /\ consumer' = "finished"
               /\ drain_from' = Some(Len(inbound))
               /\ UNCHANGED <<request, f_pos>>
          ELSE /\ gen' = "yield_chunk"
               /\ request' = Some(AudioChunk(data))
               /\ f_pos' = f_pos + Len(data)
               /\ UNCHANGED <<consumer, drain_from>>
    /\ UNCHANGED sent
    /\ UNCHANGED <<inputVars, mainVars, call, status, stream>>

\* A later next() in which open() or f.read() raises OSError: the exception
\* leaves the generator, and the consumer aborts the call.
NextIOError ==
    /\ consumer = "running" /\ request = None
    /\ gen \in {"yield_options", "yield_chunk"}
    /\ gen' = "raised"
    /\ consumer' = "aborted"
    /\ IF call = "active"
       THEN call' = "failed" /\ status' = Some(IteratorError)
       ELSE UNCHANGED <<call, status>>
    /\ UNCHANGED <<f_pos, request, sent, drain_from>>
    /\ UNCHANGED <<inputVars, mainVars, stream>>

\* Mutant of SendMessage: the consumer does not look at the state of the call
\* and hands every request to the transport.
SendMessage_Always ==
    /\ consumer = "running" /\ request # None
    /\ sent' = Append(sent, request[1])
    /\ request' = None
    /\ UNCHANGED <<gen, f_pos, consumer, drain_from>>
    /\ UNCHANGED <<inputVars, mainVars, call, status, stream>>

\* The consumer hands the yielded request to the transport, unless the call
\* is over by then: it then drops the request and stops.
SendMessage ==
    /\ consumer = "running" /\ request # None
    /\ IF call = "active"
       THEN sent' = Append(sent, request[1]) /\ UNCHANGED consumer
       ELSE consumer' = "stopped" /\ UNCHANGED sent
    /\ request' = None
    /\ UNCHANGED <<gen, f_pos, drain_from>>
    /\ UNCHANGED <<inputVars, mainVars, call, status, stream>>

\* ------------------------------------------------------------ transcribe
RECURSIVE Join_Trailing(_)
\* Mutant of Join: every segment is followed by a space, the last one too.
Join_Trailing(segs) ==
    IF segs = <<>> THEN <<>> ELSE segs[1] \o <<" ">> \o Join_Trailing(Tail(segs))

RECURSIVE Join(_)
\* ' '.join(segs)
Join(segs) ==
    IF segs = <<>> THEN <<>>
    ELSE IF Len(segs) = 1 THEN segs[1]
    ELSE segs[1] \o <<" ">> \o Join(Tail(segs))

\* grpc.secure_channel and the stub.
OpenChannel ==
    /\ pc = "start"
    /\ channel' = "open"
    /\ pc' = "connected"
    /\ UNCHANGED <<inbound, segments, intermediate_texts, returned, raised>>
    /\ UNCHANGED <<inputVars, genVars, call, status, stream>>

\* stub.RecognizeStreaming(self._audio_generator(...)): the call starts and
\* its consumer thread with it; then segments = [], intermediate_texts = [].
RecognizeStreaming ==
    /\ pc = "connected"
    /\ call' = "active"
    /\ consumer' = "running"
    /\ segments' = <<>>
    /\ intermediate_texts' = <<>>
    /\ pc' = "loop"
    /\ UNCHANGED <<channel, inbound, returned, raised>>
    /\ UNCHANGED <<inputVars, gen, f_pos, request, sent, drain_from, status, stream>>

\* Mutant of SegmentsAfter: a final text equal to the last segment is taken
\* for a repeat and skipped.
SegmentsAfter_Dedup(segs, response) ==
    IF /\ response.event = "final" /\ Len(response.alternatives) > 0
       /\ (segs = <<>> \/ segs[Len(segs)] # response.alternatives[1])
    THEN Append(segs, response.alternatives[1])
    ELSE segs

\* Mutant of SegmentsAfter: the text of a partial is appended as well.
SegmentsAfter_Partials(segs, response) ==
    IF response.event \in {"partial", "final"} /\ Len(response.alternatives) > 0
    THEN Append(segs, response.alternatives[1])
    ELSE segs

\* Mutant of SegmentsAfter: the emptiness of the alternatives is not looked
\* at, and a final without one counts as a final of empty text.
SegmentsAfter_NoGuard(segs, response) ==
    IF response.event = "final"
    THEN Append(segs, IF response.alternatives = <<>> THEN <<>>
                      ELSE response.alternatives[1])
    ELSE segs

\* Mutant of SegmentsAfter: with save_intermediate the kept partial texts go
\* to the segments.
SegmentsAfter_SavePartials(segs, response) ==
    IF /\ response.event \in (IF save_intermediate THEN {"partial", "final"} ELSE {"final"})
       /\ Len(response.alternatives) > 0
    THEN Append(segs, response.alternatives[1])
    ELSE segs

\* Mutant of SegmentsAfter: a final that arrives while a request waits to be
\* sent is dropped (the two paths share a busy flag).
SegmentsAfter_WhileIdle(segs, response) ==
    IF response.event = "final" /\ Len(response.alternatives) > 0 /\ request = None
    THEN Append(segs, response.alternatives[1])
    ELSE segs

\* The body of the for loop on one response.
SegmentsAfter(segs, response) ==
    IF response.event = "final" /\ Len(response.alternatives) > 0
    THEN Append(segs, response.alternatives[1])
    ELSE segs

IntermediateAfter(texts, response, save) ==
    IF response.event = "partial" /\ Len(response.alternatives) > 0 /\ save
    THEN Append(texts, response.alternatives[1])
    ELSE texts

\* Mutant of Receive: the first response is awaited only once every request
\* has been sent.
Receive_AfterSend ==
    /\ pc = "loop" /\ call = "active"
    /\ consumer = "finished"
    /\ \E response \in
            (IF stream = None
             THEN IF Len(inbound) < MaxEvents THEN Responses ELSE {}
             ELSE IF stream[1] # <<>> THEN {Head(stream[1])} ELSE {}) :
          /\ segments' = SegmentsAfter(segments, response)
          /\ intermediate_texts' =
                IntermediateAfter(intermediate_texts, response, save_intermediate)
          /\ inbound' = Append(inbound, response)
    /\ stream' = IF stream = None THEN None ELSE Some(Tail(stream[1]))
    /\ UNCHANGED <<pc, channel, returned, raised>>
    /\ UNCHANGED <<inputVars, genVars, call, status>>

\* Mutant of Receive: once every request has been sent the responses are
\* still taken off the stream but no longer looked at.
Receive_DeafWhenSent ==
    /\ pc = "loop" /\ call = "active"
    /\ \E response \in
            (IF stream = None
             THEN IF Len(inbound) < MaxEvents THEN Responses ELSE {}
             ELSE IF stream[1] # <<>> THEN {Head(stream[1])} ELSE {}) :
          /\ segments' = IF consumer = "finished" THEN segments
                          ELSE SegmentsAfter(segments, response)
          /\ intermediate_texts' =
                IntermediateAfter(intermediate_texts, response, save_intermediate)
          /\ inbound' = Append(inbound, response)
    /\ stream' = IF stream = None THEN None ELSE Some(Tail(stream[1]))
    /\ UNCHANGED <<pc, channel, returned, raised>>
    /\ UNCHANGED <<inputVars, genVars, call, status>>

\* The responses the server may deliver next.
Deliverable ==
    IF stream = None
    THEN IF Len(inbound) < MaxEvents THEN Responses ELSE {}
    ELSE IF stream[1] # <<>> THEN {Head(stream[1])} ELSE {}

\* next(stream) returns a response.
Receive ==
    /\ pc = "loop" /\ call = "active"
    /\ \E response \in Deliverable :
          /\ segments' = SegmentsAfter(segments, response)
          /\ intermediate_texts' =
                IntermediateAfter(intermediate_texts, response, save_intermediate)
          /\ inbound' = Append(inbound, response)
    /\ stream' = IF stream = None THEN None ELSE Some(Tail(stream[1]))
    /\ UNCHANGED <<pc, channel, returned, raised>>
    /\ UNCHANGED <<inputVars, genVars, call, status>>

\* next(stream) raises StopIteration: the server ended the call with OK.
\* The loop ends and transcribe returns.
Return ==
    /\ pc = "loop" /\ call = "active"
    /\ stream \in {None, Some(<<>>)}
    /\ call' = "ok"
    /\ LET full_text == Join(segments)
       IN returned' = Some(<<full_text, segments>>)
    /\ pc' = "returned"
    /\ UNCHANGED <<channel, inbound, segments, intermediate_texts, raised>>
    /\ UNCHANGED <<inputVars, genVars, status, stream>>

\* The transport gives up on the call.
TransportFailure ==
    /\ call = "active"
    /\ \E e \in TransportErrors : status' = Some(e)
    /\ call' = "failed"
    /\ UNCHANGED <<inputVars, mainVars, genVars, stream>>

\* Mutant of Raise: the except clause logs the error and falls through to the
\* return of what was accumulated.
Raise_Swallow ==
    /\ pc = "loop" /\ call = "failed"
    /\ returned' = Some(<<Join(segments), segments>>)
    /\ pc' = "returned"
    /\ UNCHANGED <<channel, inbound, segments, intermediate_texts, raised>>
    /\ UNCHANGED <<inputVars, genVars, call, status, stream>>

\* next(stream) raises the call's error: the except clause logs and re-raises.
Raise ==
    /\ pc = "loop" /\ call = "failed"
    /\ raised' = status
    /\ pc' = "raised"
    /\ UNCHANGED <<channel, inbound, segments, intermediate_texts, returned>>
    /\ UNCHANGED <<inputVars, genVars, call, status, stream>>

\* --------------------------------------------------------- specification
\* The state at the call of transcribe.
AtCall ==
    /\ pc = "start"
    /\ channel = "none"
    /\ call = "none"
    /\ status = None
    /\ inbound = <<>>
    /\ segments = <<>>
    /\ intermediate_texts = <<>>
    /\ returned = None
    /\ raised = None
    /\ gen = "created"
    /\ f_pos = 0
    /\ consumer = "idle"
    /\ request = None
    /\ sent = <<>>
    /\ drain_from = None

SettingsValid == sample_rate > 0 /\ channel_count > 0

Init ==
    /\ audio \in Sources
    /\ chunk_size \in 1..MaxChunk
    /\ stream \in {None, Some(Scenario)}
    /\ save_intermediate \in BOOLEAN
    /\ sample_rate \in SampleRates /\ channel_count \in ChannelCounts
    /\ SettingsValid
    /\ AtCall

\* Calls with any settings, valid or not, on the shortest sources.
InitSettings ==
    /\ audio \in {AudioOf(0), AudioOf(1)}
    /\ chunk_size = 1
    /\ stream = None
    /\ save_intermediate = FALSE
    /\ sample_rate \in SampleRates /\ channel_count \in ChannelCounts
    /\ AtCall

Next ==
    \/ OpenChannel
    \/ RecognizeStreaming
    \/ Receive
    \/ Return
    \/ TransportFailure
    \/ Raise
    \/ NextOptions
    \/ NextChunk
    \/ NextIOError
    \/ SendMessage

Spec == Init /\ [][Next]_vars

SpecSettings == InitSettings /\ [][Next]_vars

\* Fair scheduling: the caller's thread and the consumer thread keep running,
\* a response the server delivers is taken by the loop, and the server ends
\* the response stream unless the call fails first.
Fairness ==
    /\ WF_vars(OpenChannel \/ RecognizeStreaming \/ Raise)
    /\ WF_vars(Receive)
    /\ WF_vars(Return)
    /\ WF_vars(NextOptions \/ NextChunk \/ SendMessage)

\* The calls on the empty source and on the longest one.
InitLive == Init /\ Len(audio) \in {0, MaxSrcLen}

LiveSpec == InitLive /\ [][Next]_vars /\ Fairness

\* ---------------------------------------------------------------- claims
\* The audio chunks among the requests the transport has observed.
SentChunks == SelectSeq(sent, LAMBDA m : m.kind = "chunk")

RECURSIVE Concat(_)
Concat(chunks) ==
    IF chunks = <<>> THEN <<>> ELSE Head(chunks).data \o Concat(Tail(chunks))

IsPrefix(s, t) == Len(s) <= Len(t) /\ SubSeq(t, 1, Len(s)) = s

\* C1: the requests the transport observes start with the one session-options
\* message and every later one is an audio chunk, for an empty source as for
\* any other; the generator yields no chunk before the transport has the
\* session options.
C1_OptionsFirst ==
    /\ \A i \in 1..Len(sent) :
          IF i = 1 THEN sent[i] = SessionOptions ELSE sent[i].kind = "chunk"
    /\ request # None /\ request[1].kind = "chunk" => sent # <<>>
    /\ gen \in {"yield_chunk", "done"} => sent # <<>> /\ sent[1].kind = "session_options"

C1_Witness ==
    /\ gen = "done" /\ Len(sent) >= 3 /\ sent[1] = SessionOptions

\* C2: once the generator is exhausted the number of audio chunks sent is
\* ceil(Len(audio) / chunk_size) and the last one holds Len(audio) mod
\* chunk_size bytes, or chunk_size when that is 0; 2.5 chunks of audio give 3
\* chunks and an empty source none.
C2_ChunkCount ==
    gen = "done" =>
        LET n == Len(audio)
            k == Len(SentChunks)
        IN /\ k = (n + chunk_size - 1) \div chunk_size
           /\ n = 0 => k = 0
           /\ 2 * n = 5 * chunk_size => k = 3
           /\ k > 0 =>
                Len(SentChunks[k].data) =
                    IF n % chunk_size = 0 THEN chunk_size ELSE n % chunk_size

C2_Witness ==
    /\ gen = "done" /\ 2 * Len(audio) = 5 * chunk_size /\ Len(SentChunks) = 3
    /\ 2 * Len(SentChunks[3].data) = chunk_size

\* C3: once the generator is exhausted the payloads of the audio chunks sent,
\* concatenated in send order, are the bytes of the source; before that they
\* are a prefix of it.
C3_PayloadIsSource ==
    /\ IsPrefix(Concat(SentChunks), audio)
    /\ gen = "done" => Concat(SentChunks) = audio

C3_Witness ==
    /\ gen = "done" /\ Len(SentChunks) >= 2 /\ Concat(SentChunks) = audio
    /\ Len(audio) % chunk_size # 0

\* The texts of the responses that are a final with an alternative, first
\* alternative each, in the order of seq.
FinalTexts(seq) ==
    LET finals == SelectSeq(seq, LAMBDA r : r.event = "final" /\ r.alternatives # <<>>)
    IN [i \in 1..Len(finals) |-> Head(finals[i].alternatives)]

\* C4: throughout the receive loop segments is the list of the first
\* alternatives of the finals consumed so far, in receipt order, equal texts
\* kept apart; a step only ever extends segments.
C4_SegmentsAreFinals ==
    /\ [](segments = FinalTexts(inbound))
    /\ [][IsPrefix(segments, segments')]_vars

C4_Witness ==
    /\ pc = "loop" /\ segments = <<ta, ta>>

\* Where segment i starts in the space-join of segs, less one.
RECURSIVE Offset(_, _)
Offset(segs, i) == IF i = 1 THEN 0 ELSE Offset(segs, i - 1) + Len(segs[i - 1]) + 1

\* text is segs joined by single spaces, position by position.
IsSpaceJoin(text, segs) ==
    LET n == Len(segs)
    IN /\ Len(text) = IF n = 0 THEN 0 ELSE Offset(segs, n) + Len(segs[n])
       /\ \A i \in 1..n :
             SubSeq(text, Offset(segs, i) + 1, Offset(segs, i) + Len(segs[i])) = segs[i]
       /\ \A i \in 2..n : text[Offset(segs, i)] = " "

HelloWorld == <<"h", "e", "l", "l", "o", " ", "w", "o", "r", "l", "d">>

\* C5: the full_text transcribe returns is the returned segments joined by
\* single spaces, and these are the finals in receipt order; the responses
\* Partial(hel), Partial(hello), Final(hello), Partial(wor), Final(world) give
\* segments [hello, world] and full_text 'hello world'.
C5_FullTextIsJoin ==
    returned # None =>
        LET text == returned[1][1]
            segs == returned[1][2]
        IN /\ IsSpaceJoin(text, segs)
           /\ segs = FinalTexts(inbound)
           /\ inbound = Scenario => segs = <<hello, world>> /\ text = HelloWorld

C5_Witness ==
    /\ returned # None /\ inbound = Scenario /\ returned[1][1] = HelloWorld

Last(seq) == seq[Len(seq)]

\* C6: consuming a partial or a final_refinement leaves segments as it is, and
\* segments has as many entries as finals (with an alternative) were consumed.
C6_OnlyFinalsCount ==
    /\ [](Len(segments) =
            Len(SelectSeq(inbound, LAMBDA r : r.event = "final" /\ r.alternatives # <<>>)))
    /\ [][(/\ Len(inbound') = Len(inbound) + 1
           /\ Last(inbound').event \in {"partial", "final_refinement"})
          => segments' = segments]_vars

C6_Witness ==
    /\ Len(inbound) = 2 /\ Len(segments) = 1
    /\ Last(inbound) \in {Response("partial", <<ta>>), Response("final_refinement", <<ta>>)}

\* C7: a call the transport failed never ends with a returned value, whatever
\* was consumed before; what transcribe raises is the error of the call, code
\* and details unchanged.
C7_FailureRaises ==
    /\ call = "failed" => returned = None /\ pc \in {"loop", "raised"}
    /\ raised # None => call = "failed" /\ raised = status /\ returned = None

C7_Witness ==
    /\ pc = "raised" /\ Len(segments) = 1 /\ raised = Some(CHOOSE e \in TransportErrors : TRUE)

\* C8: whenever transcribe has ended, by return or by exception, the channel
\* it opened is closed.
C8_ChannelReleased ==
    pc \in {"returned", "raised"} => channel = "closed"

\* C9: transcribe returns only once the generator is exhausted, every chunk of
\* the source sent.
C9_ReturnAfterAllSent ==
    returned # None => gen = "done" /\ Concat(SentChunks) = audio

\* C10: while the call is active and the server has a response to deliver the
\* receive loop can take it, whatever the state of the send path.
C10_ReceiveIndependent ==
    pc = "loop" /\ call = "active" /\ Deliverable # {} => ENABLED Receive

C10_Witness ==
    /\ pc = "loop" /\ call = "active" /\ Len(segments) >= 1
    /\ gen # "done" /\ f_pos < Len(audio) /\ Len(SentChunks) >= 1

\* C11: with a sample rate or a channel count that is not positive transcribe
\* opens no channel, starts no call, sends nothing and returns nothing.
C11_InvalidSettingsRejected ==
    ~SettingsValid =>
        channel = "none" /\ call = "none" /\ sent = <<>> /\ returned = None

\* The errors of the grpc call, as opposed to an IOError of the file.
RpcErrors == TransportErrors \cup {IteratorError}

\* C12: once open() or read() has failed in the generator of a running call,
\* which ends the call, transcribe returns no transcript, and the error it
\* raises is the IOError, not an error of the grpc call.
C12_IOErrorSurfaces ==
    gen = "raised" /\ status = Some(IteratorError) =>
        /\ returned = None
        /\ raised # None => raised[1] \notin RpcErrors

IsFinal(r) == r.event = "final" /\ r.alternatives # <<>>
IsPartial(r) == r.event = "partial" /\ r.alternatives # <<>>
IsRefinement(r) == r.event = "final_refinement" /\ r.alternatives # <<>>
IsUnknown(r) == ~IsFinal(r) /\ ~IsPartial(r) /\ ~IsRefinement(r)

\* C13: consuming a response that is a partial or final without alternatives,
\* a final_refinement without one, or of another member, raises nothing, leaves
\* transcribe in its loop with the call as it was, and changes neither segments
\* nor intermediate_texts.
C13_SparseIsIgnored ==
    [][(Len(inbound') = Len(inbound) + 1 /\ IsUnknown(Last(inbound')))
       => /\ segments' = segments
          /\ intermediate_texts' = intermediate_texts
          /\ pc' = "loop" /\ raised' = None /\ returned' = None
          /\ call' = call]_vars

C13_Witness ==
    /\ pc = "loop" /\ call = "active" /\ Len(inbound) = 2 /\ segments = <<ta>>
    /\ Last(inbound) = Response("final", <<>>)

\* C14: for an empty source the transport has, once the generator is
\* exhausted, the session options and nothing else; a call that ends cleanly
\* with no final consumed returns ('', []).
C14_EmptyCases ==
    /\ gen = "done" /\ audio = <<>> => sent = <<SessionOptions>>
    /\ (returned # None
        /\ \A i \in 1..Len(inbound) : ~IsFinal(inbound[i]))
       => returned = Some(<< <<>>, <<>> >>)

C14_Witness ==
    /\ audio = <<>> /\ gen = "done" /\ sent = <<SessionOptions>>
    /\ returned = Some(<< <<>>, <<>> >>) /\ Len(inbound) = 2

IsSuffix(s, t) == Len(s) <= Len(t) /\ SubSeq(t, Len(t) - Len(s) + 1, Len(t)) = s

\* The responses consumed since the generator was exhausted.
Late == SubSeq(inbound, drain_from[1] + 1, Len(inbound))

\* C15: with the generator exhausted the loop still takes every response the
\* server delivers; the finals consumed since then are the last entries of
\* segments and of the segments returned, and transcribe returns only when the
\* server has ended the stream.
C15_DrainingKeepsFinals ==
    /\ (pc = "loop" /\ call = "active" /\ gen = "done" /\ Deliverable # {})
       => ENABLED Receive
    /\ drain_from # None => IsSuffix(FinalTexts(Late), segments)
    /\ returned # None =>
          /\ call = "ok" /\ stream \in {None, Some(<<>>)}
          /\ drain_from # None => IsSuffix(FinalTexts(Late), returned[1][2])

C15_Witness ==
    /\ returned # None /\ drain_from # None /\ drain_from[1] < Len(inbound)
    /\ IsFinal(Last(inbound)) /\ Last(returned[1][2]) = Head(Last(inbound).alternatives)

\* The chunks the generator has yielded: those sent and the one waiting.
YieldedChunks ==
    SentChunks \o (IF request # None /\ request[1].kind = "chunk" THEN request ELSE <<>>)

\* C16: every chunk the generator yields holds at least one byte and at most
\* chunk_size, and every chunk but the last one yielded holds exactly
\* chunk_size; no empty chunk is ever yielded.
C16_ChunkSizes ==
    \A i \in 1..Len(YieldedChunks) :
        /\ Len(YieldedChunks[i].data) >= 1
        /\ Len(YieldedChunks[i].data) <= chunk_size
        /\ i < Len(YieldedChunks) => Len(YieldedChunks[i].data) = chunk_size

C16_Witness ==
    /\ gen = "done" /\ Len(SentChunks) >= 2
    /\ Len(Last(SentChunks).data) < chunk_size

\* C17 as claimed: once transcribe has raised, no byte is read from the
\* source, no request reaches the transport and segments stays as it is.
C17_NothingAfterRaise ==
    [][pc = "raised" =>
        f_pos' = f_pos /\ sent' = sent /\ segments' = segments /\ inbound' = inbound]_vars

\* C17, amended: once transcribe has raised, no request reaches the transport
\* and no response is consumed or folded into segments; the generator is
\* resumed at most once more, and the chunk it then reads is dropped, after
\* which the consumer has stopped and reads nothing.
C17_TornDown ==
    [][pc = "raised" =>
        /\ sent' = sent /\ segments' = segments /\ inbound' = inbound
        /\ f_pos' # f_pos => request = None /\ request' # None
        /\ request # None =>
              f_pos' = f_pos /\ (request' # request => consumer' = "stopped")
        /\ consumer # "running" => f_pos' = f_pos /\ consumer' = consumer]_vars

C17_Witness ==
    /\ pc = "raised" /\ consumer = "stopped" /\ Len(segments) >= 1
    /\ f_pos > Len(Concat(SentChunks))

\* C18: under fair scheduling, with a response stream that ends or fails,
\* the generator comes to its end (exhausted, failed or abandoned by the
\* consumer of an ended call) and transcribe returns or raises.
C18_Terminates ==
    /\ <>(pc \in {"returned", "raised"})
    /\ <>(consumer \in {"finished", "aborted", "stopped"})

C18_Witness ==
    /\ pc = "returned" /\ consumer = "finished" /\ Len(SentChunks) >= 2
    /\ Len(inbound) >= 1

PartialTexts(seq) ==
    LET partials == SelectSeq(seq, IsPartial)
    IN [i \in 1..Len(partials) |-> Head(partials[i].alternatives)]

\* C19: for either value of save_intermediate the segments and the returned
\* value are the same function of the responses consumed, and whether
\* transcribe can return or raise does not depend on it; save_intermediate
\* decides only whether the partial texts are kept in intermediate_texts.
C19_SaveIntermediateIsolated ==
    /\ intermediate_texts = (IF save_intermediate THEN PartialTexts(inbound) ELSE <<>>)
    /\ segments = FinalTexts(inbound)
    /\ returned # None =>
          /\ returned[1][2] = FinalTexts(inbound)
          /\ IsSpaceJoin(returned[1][1], FinalTexts(inbound))
    /\ ENABLED Return <=> (pc = "loop" /\ call = "active" /\ stream \in {None, Some(<<>>)})
    /\ ENABLED Raise <=> (pc = "loop" /\ call = "failed")

C19_Witness ==
    /\ save_intermediate /\ returned # None
    /\ intermediate_texts = <<hel, hello, wor>> /\ returned[1][2] = <<hello, world>>

\* C20: a step of the send path changes nothing of what the receive path
\* accumulates and a step that consumes a response changes nothing of the send
\* path, so that whatever the interleaving the returned value is that of the
\* responses consumed.
C20_InterleavingIndependent ==
    /\ [](returned # None =>
            returned[1][2] = FinalTexts(inbound) /\ IsSpaceJoin(returned[1][1], returned[1][2]))
    /\ [][genVars' # genVars =>
            UNCHANGED <<segments, intermediate_texts, inbound, returned, raised>>]_vars
    /\ [][inbound' # inbound => UNCHANGED genVars]_vars

C20_Witness ==
    /\ returned # None /\ inbound = Scenario
    /\ Len(SentChunks) >= 1 /\ f_pos < Len(audio) /\ request # None

====
